---- MODULE Spec2Model ----
(***************************************************************************)
(* Model of the tabular2 table builder (src/src/lib.rs): the two-phase     *)
(* builder Table<ModifyHeader> / Table<ModifyRows>, the running column     *)
(* widths kept by update_widths, and the renderer (format and Display).    *)
(*                                                                         *)
(* A text is a sequence of glyphs.  A glyph is one of                      *)
(*   "a"   a narrow printable character (one column),                      *)
(*   "W"   a wide (East Asian) character (two columns),                    *)
(*   "E"   a well-formed terminal escape sequence (stripped, no columns),  *)
(*   "X"   input on which strip_ansi_escapes::strip returns Err,           *)
(*   " "   the space that format and fmt write,                            *)
(*   "\n"  the line terminator that writeln! writes.                       *)
(***************************************************************************)
EXTENDS Integers, Sequences, FiniteSets, TLC

VARIABLES
    headers,         \* Table.headers: Vec<Header>
    column_widths,   \* Table.column_widths: Vec<usize>
    rows,            \* Table.rows: Vec<Vec<String>>
    skip_header,     \* Table.skip_header: bool
    phase,           \* the type parameter T: "ModifyHeader" or "ModifyRows"
    panicked,        \* TRUE once width's expect() has panicked: the thread unwinds
    passed_headers,  \* the headers the caller has passed to header(), in call order
    passed_rows,     \* the cell lists the caller has passed to row(), in call order
    rendered         \* <<text>>: what to_string() returned for the table as it
                     \* is now; <<>> if it has not been called since the last change

vars == <<headers, column_widths, rows, skip_header, phase, panicked,
          passed_headers, passed_rows, rendered>>

\* Bounds of the model.
MaxHeaders == 2
MaxRows == 2
MaxCells == 2

\* format's floor on the rendered width of a column.
MinTargetWidth == 8

Max(a, b) == IF a >= b THEN a ELSE b
Min(a, b) == IF a <= b THEN a ELSE b

\* " ".repeat(n), and more generally n copies of one glyph.
Repeat(g, n) == [i \in 1..n |-> g]

\* Width measurement.

\* strip_ansi_escapes::strip: Err on input it cannot process, otherwise the
\* text without its escape sequences.
strip(s) ==
    IF \E i \in 1..Len(s) : s[i] = "X"
    THEN [ok |-> FALSE, bytes |-> <<>>]
    ELSE [ok |-> TRUE, bytes |-> SelectSeq(s, LAMBDA g : g # "E")]

\* unicode_width: the columns one character takes.
CharWidth(g) ==
    CASE g = "W" -> 2
      [] g = "\n" -> 0
      [] OTHER -> 1

\* The columns the first n characters of s take.
RECURSIVE WidthOfFirst(_, _)
WidthOfFirst(s, n) ==
    IF n = 0 THEN 0 ELSE WidthOfFirst(s, n - 1) + CharWidth(s[n])

\* unicode_width::UnicodeWidthStr::width: the sum over the characters.
UnicodeWidthStr(s) == WidthOfFirst(s, Len(s))

\* width(s) panics exactly when strip(s) is Err (the expect()).
width_panics(s) == ~strip(s).ok

\* width(s) when it returns.
width(s) == UnicodeWidthStr(strip(s).bytes)

\* Headers and rows.

Alignment == {"Left", "Right", "Center"}

\* impl Into<Header> for &str
into(s) == [text |-> s, alignment |-> "Left"]

\* Row::new()
Row_new == [cells |-> <<>>]

\* Row::cell as it would be with cells.insert(0, ..) for cells.push(..).
cell_inserts_first(self, c) == [cells |-> <<c>> \o self.cells]

\* Row::cell(self, cell)
cell(self, c) == [cells |-> Append(self.cells, c)]

\* Row::new().cell(cs[1]).cell(cs[2])... : the row a caller builds from cs.
RECURSIVE BuildRow(_)
BuildRow(cs) ==
    IF cs = <<>> THEN Row_new
    ELSE cell(BuildRow(SubSeq(cs, 1, Len(cs) - 1)), cs[Len(cs)])

\* The table, as a value.

Table(h, cw, r, sk, ph, pn) ==
    [headers |-> h, column_widths |-> cw, rows |-> r, skip_header |-> sk,
     phase |-> ph, panicked |-> pn]

\* update_widths as it would be with *w += width(&cell).
RECURSIVE update_widths_add(_, _, _)
update_widths_add(self, row, i) ==
    IF i > Min(Len(self.column_widths), Len(row.cells)) THEN self
    ELSE IF width_panics(row.cells[i]) THEN [self EXCEPT !.panicked = TRUE]
    ELSE update_widths_add(
            [self EXCEPT !.column_widths[i] = @ + width(row.cells[i])],
            row, i + 1)

\* update_widths as it would be with *w = width(&cell), without the max.
RECURSIVE update_widths_overwrite(_, _, _)
update_widths_overwrite(self, row, i) ==
    IF i > Min(Len(self.column_widths), Len(row.cells)) THEN self
    ELSE IF width_panics(row.cells[i]) THEN [self EXCEPT !.panicked = TRUE]
    ELSE update_widths_overwrite(
            [self EXCEPT !.column_widths[i] = width(row.cells[i])],
            row, i + 1)

\* update_widths as it would be with std::cmp::min for std::cmp::max.
RECURSIVE update_widths_min(_, _, _)
update_widths_min(self, row, i) ==
    IF i > Min(Len(self.column_widths), Len(row.cells)) THEN self
    ELSE IF width_panics(row.cells[i]) THEN [self EXCEPT !.panicked = TRUE]
    ELSE update_widths_min(
            [self EXCEPT !.column_widths[i] = Min(@, width(row.cells[i]))],
            row, i + 1)

\* Table::update_widths: the zip loop from column i on.  A panic in width
\* leaves the widths of the columns before i updated.
RECURSIVE update_widths_from(_, _, _)
update_widths_from(self, row, i) ==
    IF i > Min(Len(self.column_widths), Len(row.cells)) THEN self
    ELSE IF width_panics(row.cells[i]) THEN [self EXCEPT !.panicked = TRUE]
    ELSE update_widths_from(
            [self EXCEPT !.column_widths[i] = Max(@, width(row.cells[i]))],
            row, i + 1)

update_widths(self, row) == update_widths_from(self, row, 1)

\* Table::new()
Table_new == Table(<<>>, <<>>, <<>>, FALSE, "ModifyHeader", FALSE)

\* header as it would be without column_widths.push(width).
header_without_width(self, h) ==
    IF width_panics(h.text) THEN [self EXCEPT !.panicked = TRUE]
    ELSE Table(Append(self.headers, h), self.column_widths,
               self.rows, self.skip_header, "ModifyHeader", FALSE)

\* Table<ModifyHeader>::header
header(self, h) ==
    IF width_panics(h.text) THEN [self EXCEPT !.panicked = TRUE]
    ELSE Table(Append(self.headers, h),
               Append(self.column_widths, width(h.text)),
               self.rows, self.skip_header, "ModifyHeader", FALSE)

\* Table<ModifyHeader>::row as it would be without its update_widths call.
ModifyHeader_row_without_update(self, row) ==
    Table(self.headers, self.column_widths, <<row.cells>>, self.skip_header,
          "ModifyRows", FALSE)

\* Table<ModifyHeader>::row as it would be with rows: self.rows, as in header.
ModifyHeader_row_keeps_rows(self, row) ==
    LET u == update_widths(self, row) IN
    IF u.panicked THEN u
    ELSE Table(u.headers, u.column_widths, u.rows, u.skip_header,
               "ModifyRows", FALSE)

\* Table<ModifyHeader>::row
ModifyHeader_row(self, row) ==
    LET u == update_widths(self, row) IN
    IF u.panicked THEN u
    ELSE Table(u.headers, u.column_widths, <<row.cells>>, u.skip_header,
               "ModifyRows", FALSE)

\* end_header as it would be with column_widths: Vec::new(), as for rows.
end_header_resets_widths(self) ==
    Table(self.headers, <<>>, <<>>, self.skip_header, "ModifyRows", FALSE)

\* end_header as it would be with skip_header set for a table without headers.
end_header_skips_without_headers(self) ==
    Table(self.headers, self.column_widths, <<>>, self.headers = <<>>,
          "ModifyRows", FALSE)

\* Table<ModifyHeader>::end_header
end_header(self) ==
    Table(self.headers, self.column_widths, <<>>, self.skip_header,
          "ModifyRows", FALSE)

\* Table<ModifyRows>::row
ModifyRows_row(self, row) ==
    LET u == update_widths(self, row) IN
    IF u.panicked THEN u
    ELSE [u EXCEPT !.rows = Append(@, row.cells)]

\* The padding as it would be without the floor of line 108.
format_padding_without_floor(s, target_width) == target_width - width(s)

\* The padding as it would be with s.len() for width(s).
format_padding_by_len(s, target_width) ==
    Max(target_width, MinTargetWidth) - Len(s)

\* format: the padding it computes (usize subtraction, lines 107-109).
format_padding(s, target_width) ==
    Max(target_width, MinTargetWidth) - width(s)

\* format as it would be with the larger half of a Center padding first.
format_center_ceil_first(s, target_width, alignment) ==
    LET padding == format_padding(s, target_width) IN
    CASE alignment = "Left" -> s \o Repeat(" ", padding)
      [] alignment = "Right" -> Repeat(" ", padding) \o s
      [] alignment = "Center" ->
            LET right == padding \div 2
                left == padding - right
            IN Repeat(" ", left) \o s \o Repeat(" ", right)

\* format(s, target_width, alignment)
format(s, target_width, alignment) ==
    LET padding == format_padding(s, target_width) IN
    CASE alignment = "Left" -> s \o Repeat(" ", padding)
      [] alignment = "Right" -> Repeat(" ", padding) \o s
      [] alignment = "Center" ->
            LET left == padding \div 2
                right == padding - left
            IN Repeat(" ", left) \o s \o Repeat(" ", right)

\* fmt, header loop: write!(f, "{} ", format(..)) for the pairs of
\* headers.iter().zip(column_widths.iter()), from pair i on.
RECURSIVE write_headers(_, _)
write_headers(self, i) ==
    IF i > Min(Len(self.headers), Len(self.column_widths)) THEN <<>>
    ELSE format(self.headers[i].text, self.column_widths[i],
                self.headers[i].alignment)
            \o <<" ">> \o write_headers(self, i + 1)

\* The inner row loop as it would be with the alignment of the column's
\* header for Alignment::Left.
RECURSIVE write_cells_header_alignment(_, _, _)
write_cells_header_alignment(self, row, i) ==
    IF i > Min(Len(row), Len(self.column_widths)) THEN <<>>
    ELSE format(row[i], self.column_widths[i], self.headers[i].alignment)
            \o <<" ">> \o write_cells_header_alignment(self, row, i + 1)

\* The inner row loop as it would be over every column width, with an empty
\* cell where the row has none.
RECURSIVE write_cells_pads_missing(_, _, _)
write_cells_pads_missing(self, row, i) ==
    IF i > Len(self.column_widths) THEN <<>>
    ELSE format(IF i <= Len(row) THEN row[i] ELSE <<>>,
                self.column_widths[i], "Left")
            \o <<" ">> \o write_cells_pads_missing(self, row, i + 1)

\* fmt, inner row loop: write!(f, "{cell} ") for the pairs of
\* row.iter().zip(column_widths.iter()), from pair i on.
RECURSIVE write_cells(_, _, _)
write_cells(self, row, i) ==
    IF i > Min(Len(row), Len(self.column_widths)) THEN <<>>
    ELSE format(row[i], self.column_widths[i], "Left")
            \o <<" ">> \o write_cells(self, row, i + 1)

\* fmt, outer row loop: the cells of each row, then writeln!(f), from row r on.
RECURSIVE write_rows(_, _)
write_rows(self, r) ==
    IF r > Len(self.rows) THEN <<>>
    ELSE write_cells(self, self.rows[r], 1) \o <<"\n">>
            \o write_rows(self, r + 1)

\* fmt as it would be without the writeln!(f) that ends the header line.
fmt_header_unterminated(self) ==
    (IF ~self.skip_header THEN write_headers(self, 1) ELSE <<>>)
        \o write_rows(self, 1)

\* <Table<ModifyRows> as Display>::fmt: the text to_string() returns.
fmt(self) ==
    (IF ~self.skip_header THEN write_headers(self, 1) \o <<"\n">> ELSE <<>>)
        \o write_rows(self, 1)

\* Inputs of the callers.

Name == Repeat("a", 4)
LongColumnName == Repeat("a", 9)
Coloured == <<"E", "a", "a", "a", "E">>
Malformed == <<"X">>

\* What a caller passes to header(): a &str, or a Header.
HeaderInputs ==
    {into(Name), into(Malformed),
     [text |-> LongColumnName, alignment |-> "Right"],
     [text |-> Coloured, alignment |-> "Center"]}

WideCell == Repeat("W", 5) \o <<"a">>
ColouredCell == <<"E", "a", "E">>
MalformedCell == <<"a", "X">>

CellInputs == {WideCell, ColouredCell, MalformedCell}

\* The cell lists a caller passes to Row::cell, one call per cell.
CellLists == UNION {[1..k -> CellInputs] : k \in 0..MaxCells}

\* The cell lists of the rows passed to direct calls of update_widths: one
\* shorter than, one as long as and one longer than two columns, and one
\* with a malformed cell after a well-formed one.
DirectCellLists ==
    {<<WideCell>>, <<ColouredCell, WideCell>>,
     <<ColouredCell, ColouredCell, WideCell>>, <<WideCell, MalformedCell>>}

\* The state machine.

Self == Table(headers, column_widths, rows, skip_header, phase, panicked)

Becomes(t) ==
    /\ headers' = t.headers
    /\ column_widths' = t.column_widths
    /\ rows' = t.rows
    /\ skip_header' = t.skip_header
    /\ phase' = t.phase
    /\ panicked' = t.panicked
    /\ rendered' = <<>>

Init ==
    /\ headers = Table_new.headers
    /\ column_widths = Table_new.column_widths
    /\ rows = Table_new.rows
    /\ skip_header = Table_new.skip_header
    /\ phase = Table_new.phase
    /\ panicked = Table_new.panicked
    /\ passed_headers = <<>>
    /\ passed_rows = <<>>
    /\ rendered = <<>>

\* header() as it would be in the impl<T, const N: usize> Table<T, N> block,
\* next to update_widths: callable in either phase.
Header_in_either_phase(h) ==
    /\ ~panicked
    /\ Len(headers) < MaxHeaders
    /\ LET t == header(Self, h) IN
        /\ Becomes(t)
        /\ passed_headers' =
              IF t.panicked THEN passed_headers ELSE Append(passed_headers, h)
    /\ UNCHANGED passed_rows

\* A call that returns is recorded in the caller's log; one that panics is not.
Header(h) ==
    /\ phase = "ModifyHeader" /\ ~panicked
    /\ Len(headers) < MaxHeaders
    /\ LET t == header(Self, h) IN
        /\ Becomes(t)
        /\ passed_headers' =
              IF t.panicked THEN passed_headers ELSE Append(passed_headers, h)
    /\ UNCHANGED passed_rows

HeaderRow(cs) ==
    /\ phase = "ModifyHeader" /\ ~panicked
    /\ Len(rows) < MaxRows
    /\ LET t == ModifyHeader_row(Self, BuildRow(cs)) IN
        /\ Becomes(t)
        /\ passed_rows' =
              IF t.panicked THEN passed_rows ELSE Append(passed_rows, cs)
    /\ UNCHANGED passed_headers

EndHeader ==
    /\ phase = "ModifyHeader" /\ ~panicked
    /\ Becomes(end_header(Self))
    /\ UNCHANGED <<passed_headers, passed_rows>>

Row(cs) ==
    /\ phase = "ModifyRows" /\ ~panicked
    /\ Len(rows) < MaxRows
    /\ LET t == ModifyRows_row(Self, BuildRow(cs)) IN
        /\ Becomes(t)
        /\ passed_rows' =
              IF t.panicked THEN passed_rows ELSE Append(passed_rows, cs)
    /\ UNCHANGED passed_headers

\* A direct call of the public update_widths(&mut self, &row), in either phase.
UpdateWidths(cs) ==
    /\ ~panicked
    /\ Becomes(update_widths(Self, BuildRow(cs)))
    /\ UNCHANGED <<passed_headers, passed_rows>>

\* table.to_string(): Display is implemented for Table<ModifyRows> only, and
\* takes &self.
Display ==
    /\ phase = "ModifyRows" /\ ~panicked
    /\ rendered = <<>>
    /\ rendered' = <<fmt(Self)>>
    /\ UNCHANGED <<headers, column_widths, rows, skip_header, phase, panicked,
                   passed_headers, passed_rows>>

AddHeader == \E h \in HeaderInputs : Header(h)
AddFirstRow == \E cs \in CellLists : HeaderRow(cs)
AddRow == \E cs \in CellLists : Row(cs)
DirectUpdateWidths == \E cs \in DirectCellLists : UpdateWidths(cs)

\* The builder protocol: new, header, end_header, row.
Next == AddHeader \/ AddFirstRow \/ EndHeader \/ AddRow

Spec == Init /\ [][Next]_vars

\* The builder protocol and direct calls of update_widths.
NextUW == Next \/ DirectUpdateWidths

SpecUW == Init /\ [][NextUW]_vars

\* The builder protocol and to_string().
NextDisplay == Next \/ Display

SpecDisplay == Init /\ [][NextDisplay]_vars

TypeOK ==
    /\ phase \in {"ModifyHeader", "ModifyRows"}
    /\ panicked \in BOOLEAN
    /\ skip_header \in BOOLEAN
    /\ \A i \in 1..Len(headers) : headers[i].alignment \in Alignment

\* Helpers of the properties.

SetMax(S) == CHOOSE x \in S : \A y \in S : x >= y

\* The visual widths seen so far in column i: its header's and those of the
\* cells at position i of the rows added.
SeenWidths(i) ==
    {width(headers[i].text)} \cup
    {width(rows[r][i]) : r \in {q \in 1..Len(rows) : i <= Len(rows[q])}}

\* C1: in every table built by new, header calls, a transition and row calls,
\* the tracked width of every column that has a header is the maximum of the
\* width of its header and of the widths of the cells added to that column.
C1_WidthIsMaxSeen ==
    ~panicked =>
        \A i \in 1..Len(headers) :
            /\ i \in DOMAIN column_widths
            /\ column_widths[i] = SetMax(SeenWidths(i))

\* C1 witness: two rows added, a column tracked wider than its header and
\* a row that has no cell in some column.
C1_Witness ==
    /\ phase = "ModifyRows" /\ ~panicked /\ Len(rows) = 2
    /\ \E i \in 1..Len(headers) : column_widths[i] > width(headers[i].text)
    /\ \E r \in 1..Len(rows) : Len(rows[r]) < Len(headers)

\* The (text, column width) pairs the renderer pairs up: zip stops at the
\* shorter of the two sequences.
RenderedPairs ==
    {<<headers[i].text, column_widths[i]>> :
        i \in 1..Min(Len(headers), Len(column_widths))}
    \cup UNION {
        {<<rows[r][i], column_widths[i]>> :
            i \in 1..Min(Len(rows[r]), Len(column_widths))} :
        r \in 1..Len(rows)}

\* C2: for every header field and every row cell that the renderer pairs
\* with a column width, width does not panic on the text and the padding
\* max(column_widths[i], 8) - width(text) is not negative.
C2_PaddingNeverNegative ==
    \A p \in RenderedPairs :
        /\ ~width_panics(p[1])
        /\ Max(p[2], MinTargetWidth) - width(p[1]) >= 0

\* C2 witness: a rendered column holds a cell wider than the floor, with no
\* padding, next to a narrower cell of another row and a narrower header.
C2_Witness ==
    /\ phase = "ModifyRows" /\ ~panicked
    /\ \E r1, r2 \in 1..Len(rows) :
         \E i \in 1..Min(Len(headers), Min(Len(rows[r1]), Len(rows[r2]))) :
            /\ width(rows[r1][i]) > MinTargetWidth
            /\ column_widths[i] = width(rows[r1][i])
            /\ width(rows[r2][i]) < width(rows[r1][i])
            /\ width(headers[i].text) < width(rows[r1][i])

\* The lines of a rendered text, without their terminators.
SplitLines(s) ==
    LET ends == {j \in 1..Len(s) : s[j] = "\n"}
        end(k) == CHOOSE j \in ends : Cardinality({m \in ends : m <= j}) = k
    IN [k \in 1..Cardinality(ends) |->
            SubSeq(s, (IF k = 1 THEN 0 ELSE end(k - 1)) + 1, end(k) - 1)]

RenderedLines == SplitLines(fmt(Self))

\* The texts the renderer pairs with columns 1..n in line k of the output.
LineTexts(k) ==
    LET hl == IF skip_header THEN 0 ELSE 1
        src == IF k <= hl THEN [i \in 1..Len(headers) |-> headers[i].text]
               ELSE rows[k - hl]
    IN SubSeq(src, 1, Min(Len(src), Len(column_widths)))

\* The number of glyphs of a text padded to the rendered width of column i.
FieldLen(text, i) ==
    Len(text) + Max(column_widths[i], MinTargetWidth) - width(text)

\* Where field i of a line of these texts starts: every field before it is
\* followed by one separator.
RECURSIVE FieldStart(_, _)
FieldStart(texts, i) ==
    IF i = 1 THEN 1
    ELSE FieldStart(texts, i - 1) + FieldLen(texts[i - 1], i - 1) + 1

\* The starts of the fields of a line of these texts, and of a further one.
FieldStarts(texts) == [i \in 1..(Len(texts) + 1) |-> FieldStart(texts, i)]

\* A field of column i is w wide: w is max(column_widths[i], 8), at least 8,
\* and the widest width seen in the column when that is more than 8.
FieldWidthOK(w, i, seen) ==
    /\ w = Max(column_widths[i], MinTargetWidth)
    /\ w >= MinTargetWidth
    /\ seen > MinTargetWidth => w = seen

\* A rendered line is the fields of its texts, each followed by one space.
LineOK(line, texts, seen) ==
    \A starts \in {FieldStarts(texts)} :
        /\ Len(line) = starts[Len(texts) + 1] - 1
        /\ \A i \in 1..Len(texts) :
            /\ \A w \in {width(SubSeq(line, starts[i], starts[i + 1] - 2))} :
                    FieldWidthOK(w, i, seen[i])
            /\ line[starts[i + 1] - 1] = " "

LinesOK(lines, seen) ==
    /\ Len(lines) = (IF skip_header THEN 0 ELSE 1) + Len(rows)
    /\ \A k \in 1..Len(lines) :
        \A texts \in {LineTexts(k)} : LineOK(lines[k], texts, seen)

C4_OneWidthPerHeader == Len(column_widths) = Len(headers)

\* C4 witness: a row-phase table with headers, holding a row with fewer cells
\* than there are headers and a row with more.
C4_Witness ==
    /\ phase = "ModifyRows" /\ ~panicked /\ Len(headers) > 0
    /\ \E r1, r2 \in 1..Len(rows) :
            Len(rows[r1]) < Len(headers) /\ Len(rows[r2]) > Len(headers)

\* C5: once the table is in row phase, every later step leaves it in row
\* phase with the same headers, and header() is not enabled.
C5_RowPhaseIsFinal ==
    [][phase = "ModifyRows" =>
            /\ phase' = "ModifyRows"
            /\ headers' = headers
            /\ ~ENABLED AddHeader]_vars

\* C5 witness: a row-phase table with headers that has taken row steps and
\* could still hold more headers.
C5_Witness ==
    /\ phase = "ModifyRows" /\ ~panicked
    /\ Len(rows) = 2 /\ Len(headers) \in 1..(MaxHeaders - 1)

\* C6: every header-phase table has an empty row list, and the step by which
\* row(r) leaves header phase yields the row list <<r>>.
C6_FirstRowFromHeaderPhase ==
    [][phase = "ModifyHeader" =>
            /\ rows = <<>>
            /\ (phase' = "ModifyRows" /\ passed_rows' # passed_rows) =>
                    rows' = <<passed_rows'[Len(passed_rows')]>>]_vars

\* C6 witness: a table that left header phase by row(r), r with cells.
C6_Witness ==
    /\ phase = "ModifyRows" /\ ~panicked
    /\ Len(headers) > 0 /\ Len(rows) = 1 /\ Len(rows[1]) > 0
    /\ passed_rows = rows

\* C7: headers is the sequence of headers passed to header() and rows the
\* sequence of cell lists passed to row(), both in call order and unmodified.
C7_AppendOnly ==
    /\ headers = passed_headers
    /\ rows = passed_rows

\* C7 witness: two headers and two different rows, one with more cells than
\* there are columns, whose cells differ from each other.
C7_Witness ==
    /\ ~panicked /\ Len(headers) = 2 /\ headers[1] # headers[2]
    /\ Len(rows) = 2 /\ rows[1] # rows[2]
    /\ \E r \in 1..2 : Len(rows[r]) = 2 /\ rows[r][1] # rows[r][2]

\* The widths update_widths is to leave for the cells cs: max(old, width of
\* the cell) where the row has a cell, the old width elsewhere.
MaxRule(cs) ==
    [i \in 1..Len(column_widths) |->
        IF i <= Len(cs) THEN Max(column_widths[i], width(cs[i]))
        ELSE column_widths[i]]

\* A step of a direct update_widths call that returns: the only step that
\* keeps the phase and adds neither a header nor a row.
DirectUpdateReturns ==
    /\ ~panicked' /\ phase' = phase
    /\ passed_headers' = passed_headers /\ passed_rows' = passed_rows

\* C8: no step decreases the width of a column or drops a width slot, and
\* a step that adds a row, or a direct update_widths that returns, sets
\* each width to max(old width, width(cell[i])).
C8_WidthsNeverDecrease ==
    [][/\ \A i \in 1..Len(column_widths) :
            i <= Len(column_widths') /\ column_widths'[i] >= column_widths[i]
       /\ passed_rows' # passed_rows =>
            column_widths' = MaxRule(passed_rows'[Len(passed_rows')])
       /\ DirectUpdateReturns =>
            \E cs \in DirectCellLists : column_widths' = MaxRule(cs)]_vars

\* C8 witness: a column that has grown beyond its header's width, in a table
\* that also holds a cell narrower than the width already tracked.
C8_Witness ==
    /\ phase = "ModifyRows" /\ ~panicked /\ Len(rows) = 2
    /\ \E i \in 1..Min(Len(column_widths), Len(rows[2])) :
            /\ column_widths[i] > width(headers[i].text)
            /\ width(rows[2][i]) < column_widths[i]

\* C9: a header() or row() call that fails on malformed text leaves headers,
\* column_widths and rows as they were before the call.
C9_FailedCallLeavesTableUnchanged ==
    [][panicked' =>
            /\ headers' = headers
            /\ column_widths' = column_widths
            /\ rows' = rows]_vars

\* The header line of the rendered text and its fields.
HeaderPad(i) ==
    Max(column_widths[i], MinTargetWidth) - width(headers[i].text)

Spaces(s) == \A j \in 1..Len(s) : s[j] = " "

\* f is text with l spaces before it and r spaces after it.
Padded(f, text, l, r) ==
    /\ Len(f) = l + Len(text) + r
    /\ Spaces(SubSeq(f, 1, l))
    /\ SubSeq(f, l + 1, l + Len(text)) = text
    /\ Spaces(SubSeq(f, l + Len(text) + 1, Len(f)))

\* The header field f of column i is aligned as its header says.
HeaderFieldOK(f, text, alignment, pad) ==
    LET fl == pad \div 2
        cl == (pad + 1) \div 2
    IN /\ alignment = "Left" => Padded(f, text, 0, pad)
       /\ alignment = "Right" => Padded(f, text, pad, 0)
       /\ alignment = "Center" =>
            /\ Padded(f, text, fl, cl)
            /\ fl + cl = pad /\ fl <= cl /\ cl - fl <= 1

HeaderLineOK(line, texts) ==
    \A starts \in {FieldStarts(texts)} :
        \A i \in 1..Len(texts) :
            \A f \in {SubSeq(line, starts[i], starts[i + 1] - 2)} :
                HeaderFieldOK(f, headers[i].text, headers[i].alignment,
                              HeaderPad(i))

\* C10: in the rendered header line, a Left header is its text followed by
\* pad spaces, a Right header pad spaces followed by its text, and a Center
\* header floor(pad/2) spaces, its text, then ceil(pad/2) spaces.
C10_HeaderAlignment ==
    (phase = "ModifyRows" /\ ~panicked /\ ~skip_header) =>
        \A line \in {RenderedLines[1]} : \A texts \in {LineTexts(1)} :
            HeaderLineOK(line, texts)

\* C10 witness: a Center header with an odd padding next to a Right header
\* with padding.
C10_Witness ==
    /\ phase = "ModifyRows" /\ ~panicked
    /\ \E i, j \in 1..Len(headers) :
            /\ headers[i].alignment = "Center" /\ HeaderPad(i) % 2 = 1
            /\ headers[j].alignment = "Right" /\ HeaderPad(j) > 0

\* The lines of the text to_string() returned.
DisplayedLines == SplitLines(rendered[1])

\* The number of lines before the first row line: the header line.
HeaderLines == IF skip_header THEN 0 ELSE 1

\* The padding of the cell text in column i.
CellPad(text, i) == Max(column_widths[i], MinTargetWidth) - width(text)

\* A row line is its cells, each followed by all of its padding and by the
\* separator.
RowLineLeftAligned(line, texts) ==
    \A starts \in {FieldStarts(texts)} :
        /\ Len(line) = starts[Len(texts) + 1] - 1
        /\ \A i \in 1..Len(texts) :
                Padded(SubSeq(line, starts[i], starts[i + 1] - 2),
                       texts[i], 0, CellPad(texts[i], i))

\* C11: in the text to_string() returns, every row cell is its text followed
\* by all of its padding, whatever the alignment of the header of its column.
C11_RowCellsLeftAligned ==
    rendered # <<>> =>
        \A lines \in {DisplayedLines} :
            /\ Len(lines) = HeaderLines + Len(rows)
            /\ \A r \in 1..Len(rows) :
                \A texts \in {LineTexts(HeaderLines + r)} :
                    RowLineLeftAligned(lines[HeaderLines + r], texts)

\* C11 witness: a rendered table with padded cells under a Right header and
\* under a Center header.
C11_Witness ==
    /\ rendered # <<>>
    /\ \E r \in 1..Len(rows) : \E i, j \in 1..Min(Len(rows[r]), Len(headers)) :
            /\ headers[i].alignment = "Right" /\ CellPad(rows[r][i], i) > 0
            /\ headers[j].alignment = "Center" /\ CellPad(rows[r][j], j) > 0

\* t.row(r) and t.end_header().row(r) agree: both panic, or both return
\* tables with the same fields, which render to the same text.
SameFirstRow(t, row) ==
    \A a \in {ModifyHeader_row(t, row)} :
    \A b \in {ModifyRows_row(end_header(t), row)} :
        /\ a.panicked = b.panicked
        /\ ~a.panicked =>
            /\ a.headers = b.headers
            /\ a.column_widths = b.column_widths
            /\ a.rows = b.rows
            /\ a.skip_header = b.skip_header
            /\ a.phase = b.phase
            /\ fmt(a) = fmt(b)

\* C12: for every reachable header-phase table t and every row r, t.row(r)
\* and t.end_header().row(r) have equal headers, column_widths, rows and
\* header-skip flag, and equal rendered text.
C12_FirstRowIsEndHeaderThenRow ==
    (phase = "ModifyHeader" /\ ~panicked) =>
        \A cs \in CellLists : SameFirstRow(Self, BuildRow(cs))

\* C12 witness: a table that took its first row in header phase, the row
\* widening one column and leaving another as its header seeded it.
C12_Witness ==
    /\ phase = "ModifyRows" /\ ~panicked
    /\ Len(rows) = 1 /\ passed_rows = rows /\ Len(headers) = 2
    /\ \E i, j \in 1..Len(headers) :
            /\ column_widths[i] > width(headers[i].text)
            /\ column_widths[j] = width(headers[j].text)

\* The cells of cs that have a column: the first min(k, n).
PairedCells(cs) == SubSeq(cs, 1, Min(Len(cs), Len(column_widths)))

\* The rows a caller can build.
BuiltRows == {BuildRow(cs) : cs \in CellLists}

\* update_widths returns for every row that has fewer or more cells than the
\* table has columns and whose paired cells are well-formed.  Rendering
\* leaves the table as it is, so each table is looked at once, before it is
\* rendered.
ArityNeverFails ==
    (~panicked /\ rendered = <<>>) =>
        \A t \in {Self} : \A row \in BuiltRows :
            (/\ Len(row.cells) # Len(column_widths)
             /\ \A i \in 1..Min(Len(row.cells), Len(column_widths)) :
                    ~width_panics(row.cells[i]))
                => ~update_widths(t, row).panicked

\* The line of row r of the text to_string() returned consists of the fields
\* of its first min(k, n) cells and of nothing else.
RowLineTruncated(line, cells) ==
    \A starts \in {FieldStarts(cells)} :
        /\ Len(line) = starts[Len(cells) + 1] - 1
        /\ \A i \in 1..Len(cells) :
                Padded(SubSeq(line, starts[i], starts[i + 1] - 1),
                       cells[i], 0, CellPad(cells[i], i) + 1)
        /\ Len(column_widths) = 0 => line = <<>>

RenderTruncates ==
    rendered # <<>> =>
        \A lines \in {DisplayedLines} :
            /\ Len(lines) = HeaderLines + Len(rows)
            /\ \A r \in 1..Len(rows) :
                \A cells \in {PairedCells(rows[r])} :
                    RowLineTruncated(lines[HeaderLines + r], cells)

\* A step that adds a row of k cells to a table of n columns keeps the n
\* width slots, changes none at a position from k on and takes the new
\* widths from the first min(k, n) cells only.
RowStepTruncates ==
    passed_rows' # passed_rows =>
        \A cs \in {passed_rows'[Len(passed_rows')]} :
            /\ Len(column_widths') = Len(column_widths)
            /\ \A i \in 1..Len(column_widths) :
                    i > Len(cs) => column_widths'[i] = column_widths[i]
            /\ column_widths' = MaxRule(PairedCells(cs))

\* C13: a row whose number of cells differs from the number of columns is
\* accepted; only the widths of columns i < min(k, n) can change; render
\* emits exactly min(k, n) fields for it, none when there are no headers.
C13_ArityMismatchTruncates ==
    /\ []ArityNeverFails
    /\ []RenderTruncates
    /\ [][RowStepTruncates]_vars

\* C13 witness: a rendered one-column table holding a row with two cells and
\* a row with none.
C13_Witness ==
    /\ rendered # <<>> /\ Len(headers) = 1
    /\ \E r1, r2 \in 1..Len(rows) : Len(rows[r1]) = 2 /\ Len(rows[r2]) = 0

\* The number of line terminators of a text.
Terminators(text) == Cardinality({j \in 1..Len(text) : text[j] = "\n"})

\* A line is one field for each of the texts, in their order: the text of
\* field i with the padding of column i around it, then the separator.
LineHasFields(line, texts) ==
    \A starts \in {FieldStarts(texts)} :
        /\ Len(line) = starts[Len(texts) + 1] - 1
        /\ \A i \in 1..Len(texts) :
            \A f \in {SubSeq(line, starts[i], starts[i + 1] - 2)} :
                \E l \in 0..CellPad(texts[i], i) :
                    Padded(f, texts[i], l, CellPad(texts[i], i) - l)

\* C14: when the header-skip flag is not set, the text to_string() returns
\* for a table with m rows is m + 1 terminated lines: the header line with
\* one field per header in declaration order, then one line per row in
\* insertion order; with no rows the header line only, with no headers an
\* empty header line.
C14_HeaderLineThenRowLines ==
    (rendered # <<>> /\ ~skip_header) =>
        \A text \in {rendered[1]} : \A lines \in {DisplayedLines} :
            /\ Terminators(text) = Len(rows) + 1
            /\ text[Len(text)] = "\n"
            /\ Len(lines) = Len(rows) + 1
            /\ LineHasFields(lines[1],
                    [i \in 1..Len(headers) |-> headers[i].text])
            /\ Len(headers) = 0 => lines[1] = <<>>
            /\ \A r \in 1..Len(rows) :
                    LineHasFields(lines[r + 1], PairedCells(rows[r]))

\* C14 witness: a rendered table with two headers and two different rows
\* of two cells.
C14_Witness ==
    /\ rendered # <<>> /\ ~skip_header
    /\ Len(headers) = 2 /\ headers[1] # headers[2]
    /\ Len(rows) = 2 /\ rows[1] # rows[2]
    /\ Len(rows[1]) = 2 /\ Len(rows[2]) = 2

\* The first line of a text that has a terminator, without the terminator.
FirstLine(text) ==
    SubSeq(text, 1,
           (CHOOSE j \in 1..Len(text) :
                text[j] = "\n" /\ \A m \in 1..(j - 1) : text[m] # "\n") - 1)

\* C15: the header-skip flag is false in every state the public operations
\* reach, so the text to_string() returns for any of these tables starts
\* with the header line, before one line for each row.
C15_HeaderNeverSkipped ==
    /\ skip_header = FALSE
    /\ (phase = "ModifyRows" /\ ~panicked) =>
        \A text \in {fmt(Self)} :
            /\ Terminators(text) = Len(rows) + 1
            /\ LineHasFields(FirstLine(text),
                    [i \in 1..Len(headers) |-> headers[i].text])

\* C15 witness: a table with headers and rows, one of whose widths
\* a direct update_widths call has raised beyond everything added to it.
C15_Witness ==
    /\ phase = "ModifyRows" /\ ~panicked /\ ~skip_header
    /\ Len(headers) = 2 /\ Len(rows) = 2
    /\ \E i \in 1..Len(headers) : column_widths[i] > SetMax(SeenWidths(i))

\* The visual offset at which column i is to start: the rendered widths of
\* the columns before it, each with its separator.
RECURSIVE ColumnOffset(_)
ColumnOffset(i) ==
    IF i = 1 THEN 0
    ELSE ColumnOffset(i - 1)
            + Max(column_widths[i - 1], MinTargetWidth) + 1

\* The fields of a line of these texts start at the offsets of their columns.
LineAligned(line, texts) ==
    \A starts \in {FieldStarts(texts)} :
        /\ Len(line) = starts[Len(texts) + 1] - 1
        /\ \A i \in 1..Len(texts) :
            /\ width(SubSeq(line, 1, starts[i] - 1)) = ColumnOffset(i)
            /\ \E l \in 0..CellPad(texts[i], i) :
                    SubSeq(line, starts[i] + l, starts[i] + l + Len(texts[i]) - 1)
                        = texts[i]

\* In the text to_string() returned, every field of every line starts at the
\* offset of its column.
ColumnsLineUp ==
    rendered # <<>> =>
        \A lines \in {DisplayedLines} :
            /\ Len(lines) = HeaderLines + Len(rows)
            /\ \A k \in 1..Len(lines) :
                \A texts \in {LineTexts(k)} : LineAligned(lines[k], texts)

\* C16: in every text to_string() returns, field i of the header line and of
\* every row line that has it starts at the visual offset that is the sum
\* over j < i of max(column_widths[j], 8) + 1, with the final widths, also in
\* the lines of rows added before a wider row.
C16_ColumnsLineUp == []ColumnsLineUp

\* C16 witness: a rendered two-column table whose first row has a narrow
\* first cell and a second cell, and whose second row widened the first
\* column beyond the floor.
C16_Witness ==
    /\ rendered # <<>> /\ Len(headers) = 2 /\ Len(rows) = 2
    /\ Len(rows[1]) = 2 /\ Len(rows[2]) >= 1
    /\ width(rows[1][1]) < MinTargetWidth
    /\ width(rows[2][1]) > MinTargetWidth
    /\ column_widths[1] = width(rows[2][1])

\* row() of the phase the table t is in.
AddRowTo(t, row) ==
    IF t.panicked THEN t
    ELSE IF t.phase = "ModifyHeader" THEN ModifyHeader_row(t, row)
    ELSE ModifyRows_row(t, row)

\* Adding r1 then r2 to t and adding r2 then r1 reach the same widths, and
\* adding r1 twice reaches the widths of adding it once.
WidthsCommute(t, r1, r2) ==
    \A t1 \in {AddRowTo(t, r1)} : \A t12 \in {AddRowTo(t1, r2)} :
    \A t21 \in {AddRowTo(AddRowTo(t, r2), r1)} : \A t11 \in {AddRowTo(t1, r1)} :
        /\ (~t12.panicked /\ ~t21.panicked) =>
                t12.column_widths = t21.column_widths
        /\ ~t1.panicked =>
                /\ ~t11.panicked
                /\ t11.column_widths = t1.column_widths

\* The table of header(headers[1])...header(headers[k]).
RECURSIVE HeadersTable(_)
HeadersTable(k) ==
    IF k = 0 THEN Table_new ELSE header(HeadersTable(k - 1), headers[k])

\* The table that took, after the headers, the rows of this table from the
\* last one back to row k.
RECURSIVE RowsBackTo(_)
RowsBackTo(k) ==
    IF k > Len(rows) THEN HeadersTable(Len(headers))
    ELSE AddRowTo(RowsBackTo(k + 1), BuildRow(rows[k]))

\* C17: for a fixed header list, column_widths after row r1 then row r2
\* equal those after r2 then r1, and a row added twice leaves the
\* column_widths of adding it once; so the widths of a table are those of
\* its rows added in the opposite order.
C17_WidthsOrderIndependentIdempotent ==
    /\ (rows = <<>> /\ ~panicked) =>
            \A cs1, cs2 \in CellLists :
                WidthsCommute(Self, BuildRow(cs1), BuildRow(cs2))
    /\ (rows # <<>> /\ ~panicked) =>
            \A t \in {RowsBackTo(1)} :
                /\ ~t.panicked
                /\ t.headers = headers
                /\ t.column_widths = column_widths

\* C17 witness: a table with two rows, the first narrower and the second
\* wider than its header in one column, so that each order of the two rows
\* passes through different widths.
C17_Witness ==
    /\ phase = "ModifyRows" /\ ~panicked /\ Len(rows) = 2
    /\ \E i \in 1..Len(headers) :
            /\ Len(rows[1]) >= i /\ Len(rows[2]) >= i
            /\ width(rows[1][i]) < width(headers[i].text)
            /\ width(rows[2][i]) > width(headers[i].text)
            /\ column_widths[i] = width(rows[2][i])

====
